---- MODULE Spec2Model ----
(***************************************************************************)
(* Workout API: a single-table CRUD service (FastAPI + SQLAlchemy + SQLite). *)
(* The module models the table `workouts`, the pydantic request schemas,   *)
(* the ORM session operations the handlers call, and the five handlers of  *)
(* src/workout_api/WORKOUT_API_CADUDISNER.py.                              *)
(*                                                                         *)
(*   Spec      every request is one action (the whole handler).            *)
(*   SpecConc  requests run in separate sessions, one handler statement    *)
(*             per step, interleaved in any order.                         *)
(***************************************************************************)
EXTENDS Integers, Sequences, FiniteSets, TLC

(* ------------------------------ bounds ------------------------------- *)

\* Largest primary key the model lets the table hand out.
MaxId == 2

\* The payloads a client sends: the spec's two examples, and two that share
\* fields with both (an update then changes some fields and keeps others).
Payloads == {[title |-> "Bench", load |-> 80, reps |-> 5],
             [title |-> "Squat", load |-> 100, reps |-> 8],
             [title |-> "Bench", load |-> 100, reps |-> 5],
             [title |-> "Squat", load |-> 80, reps |-> 8]}

\* The requests that can be in flight at once in SpecConc.
Requests == {"r1", "r2"}

\* Ids a client may put in the path: every id the table can hold and one
\* that no record ever has.
PathIds == 1..(MaxId + 1)

(* ------------------------- storage schema ---------------------------- *)

\* The Python None (a query that finds no row; the id of a transient object).
NoId == 0
None == [id |-> NoId, title |-> "", load |-> 0, reps |-> 0]

\* class Workout: a row of table "workouts" is a record [id, title, load,
\* reps]; the table is the set of its rows.
Ids(t) == {r.id : r \in t}

RECURSIVE MaxOf(_)
MaxOf(S) == IF S = {} THEN 0
            ELSE LET x == CHOOSE y \in S : TRUE
                     m == MaxOf(S \ {x})
                 IN  IF x > m THEN x ELSE m

\* (variant: the key is the number of rows plus one)
NextIdByCount(t) == Cardinality(t) + 1

\* Integer primary key of an SQLite table: the rowid of a new row is one more
\* than the largest rowid in the table (a deleted largest id is handed out again).
NextId(t) == MaxOf(Ids(t)) + 1

(* ------------------------ transfer contracts ------------------------- *)

\* JSON values of a request body, field by field.  A string is a sequence of
\* characters; a field may be absent.
Digit == ("0" :> 0) @@ ("1" :> 1) @@ ("2" :> 2) @@ ("3" :> 3) @@ ("4" :> 4) @@
         ("5" :> 5) @@ ("6" :> 6) @@ ("7" :> 7) @@ ("8" :> 8) @@ ("9" :> 9)

Absent == [kind |-> "absent", n |-> 0, cs |-> <<>>]
JInt(n) == [kind |-> "int", n |-> n, cs |-> <<>>]
JStr(cs) == [kind |-> "str", n |-> 0, cs |-> cs]

AbsentTitle == [kind |-> "absent", s |-> ""]
JTitle(s) == [kind |-> "str", s |-> s]

IsNumeral(cs) == Len(cs) > 0 /\ \A i \in 1..Len(cs) : cs[i] \in DOMAIN Digit

RECURSIVE NumeralValue(_)
NumeralValue(cs) == IF cs = <<>> THEN 0
                    ELSE 10 * NumeralValue(SubSeq(cs, 1, Len(cs) - 1)) + Digit[cs[Len(cs)]]

\* (variant: the field has a default, "load: int = 0")
IntFieldWithDefault(v) == IF v.kind = "int" THEN [ok |-> TRUE, n |-> v.n]
                          ELSE IF v.kind = "str" /\ IsNumeral(v.cs)
                               THEN [ok |-> TRUE, n |-> NumeralValue(v.cs)]
                               ELSE [ok |-> v.kind = "absent", n |-> 0]

\* load: int / reps: int.  pydantic takes a JSON integer as it is, converts a
\* string that is a decimal numeral, and rejects everything else.
IntField(v) == IF v.kind = "int" THEN [ok |-> TRUE, n |-> v.n]
               ELSE IF v.kind = "str" /\ IsNumeral(v.cs)
                    THEN [ok |-> TRUE, n |-> NumeralValue(v.cs)]
                    ELSE [ok |-> FALSE, n |-> 0]

\* title: str.
StrField(v) == IF v.kind = "str" THEN [ok |-> TRUE, s |-> v.s]
               ELSE [ok |-> FALSE, s |-> ""]

\* WorkoutBase (WorkoutCreate, WorkoutUpdate): the parsed payload, or the
\* validation failure that FastAPI answers with 422.
WorkoutBase(raw) ==
    LET t == StrField(raw.title)
        l == IntField(raw.load)
        r == IntField(raw.reps)
    IN  IF t.ok /\ l.ok /\ r.ok
        THEN [ok |-> TRUE, title |-> t.s, load |-> l.n, reps |-> r.n]
        ELSE [ok |-> FALSE, title |-> "", load |-> 0, reps |-> 0]

\* update.dict() / workout.dict(): the three fields of a parsed payload.
Dict(p) == [title |-> p.title, load |-> p.load, reps |-> p.reps]

\* WorkoutOut with orm_mode: reads id, title, load and reps off an ORM object.
WorkoutOut(o) == [id |-> o.id, title |-> o.title, load |-> o.load, reps |-> o.reps]

(* --------------------------- ORM session ----------------------------- *)

\* An ORM object: the mapped attributes and, in orig, the row as the session
\* last loaded it (the attribute history a flush compares against).
NoObject == [id |-> NoId, title |-> "", load |-> 0, reps |-> 0, orig |-> None]

IsNone(o) == o.id = NoId

\* (variant: load and reps passed in each other's place)
WorkoutSwapped(d) == [id |-> NoId, title |-> d.title, load |-> d.reps, reps |-> d.load,
                      orig |-> None]

\* models.Workout(**workout.dict()): a transient object, id not yet assigned.
Workout(d) == [id |-> NoId, title |-> d.title, load |-> d.load, reps |-> d.reps,
               orig |-> None]

\* The object a session builds from a row it selected.
Loaded(r) == [id |-> r.id, title |-> r.title, load |-> r.load, reps |-> r.reps,
              orig |-> r]

\* (variant: .first() in place of .get(workout_id))
getFirst(t, id) == IF t # {} THEN Loaded(CHOOSE r \in t : TRUE) ELSE NoObject

\* db.query(models.Workout).get(workout_id): the row with that primary key,
\* or None.
get(t, id) == IF \E r \in t : r.id = id
              THEN Loaded(CHOOSE r \in t : r.id = id)
              ELSE NoObject

\* (variant: only the fields that differ from a default are assigned)
SetAttrsPartial(o, d) == [o EXCEPT !.title = d.title, !.load = d.load]

\* for key, value in update.dict().items(): setattr(workout, key, value)
SetAttrs(o, d) == [o EXCEPT !.title = d.title, !.load = d.load, !.reps = d.reps]

\* The flush of a pending object (db.add, db.commit): INSERT; the table
\* assigns the primary key.
FlushInsert(t, o) ==
    t \cup {[id |-> NextId(t), title |-> o.title, load |-> o.load, reps |-> o.reps]}

\* (variant: the UPDATE has no WHERE clause)
FlushUpdateEveryRow(t, o) ==
    {[id |-> r.id, title |-> o.title, load |-> o.load, reps |-> o.reps] : r \in t}

\* The flush of a dirty object (db.commit): UPDATE workouts SET <the columns
\* whose value differs from the loaded one> WHERE id = o.id.  Columns set to
\* the value they were loaded with are not part of the statement.
FlushUpdate(t, o) ==
    {IF r.id = o.id
     THEN [id |-> r.id,
           title |-> IF o.title # o.orig.title THEN o.title ELSE r.title,
           load |-> IF o.load # o.orig.load THEN o.load ELSE r.load,
           reps |-> IF o.reps # o.orig.reps THEN o.reps ELSE r.reps]
     ELSE r : r \in t}

\* Whether the flush of o emits an UPDATE at all.
IsModified(o) == o.title # o.orig.title \/ o.load # o.orig.load \/ o.reps # o.orig.reps

\* (variant: db.delete without db.commit)
FlushDeleteNotCommitted(t, o) == t

\* The flush of a deleted object (db.delete, db.commit): DELETE ... WHERE id.
FlushDelete(t, o) == {r \in t : r.id # o.id}

\* db.refresh(obj): selects the row of obj's primary key again.
refresh(t, id) == get(t, id)

\* (variant: .limit(1).all())
allLimited(t) == {s \in [1..(IF t = {} THEN 0 ELSE 1) -> t] : TRUE}

\* db.query(models.Workout).all(): the rows, in an order the query does not
\* fix (no ORDER BY).
all(t) == {s \in [1..Cardinality(t) -> t] :
             \A i, j \in 1..Cardinality(t) : i # j => s[i] # s[j]}

(* ----------------------------- requests ------------------------------ *)

NoRaw == [title |-> AbsentTitle, load |-> Absent, reps |-> Absent]

RECURSIVE Numeral(_)
\* The decimal numeral of a natural number, as a JSON string's characters.
Numeral(n) == LET d == CHOOSE c \in DOMAIN Digit : Digit[c] = n % 10
              IN  IF n < 10 THEN <<d>> ELSE Append(Numeral(n \div 10), d)

NotANumber == <<"a", "b", "c">>

\* Bodies in which every field is present with its declared JSON type.
Plain(p) == [title |-> JTitle(p.title), load |-> JInt(p.load), reps |-> JInt(p.reps)]
PlainBodies == {Plain(p) : p \in Payloads}

\* What a client may send in an int field in place of a JSON integer n.
Variants(n) == {Absent, JStr(Numeral(n)), JStr(NotANumber)}

\* The bodies whose fields are varied: the spec's two examples.
Examples == {b \in PlainBodies : (b.load.n = 80 /\ b.reps.n = 5) \/ (b.load.n = 100 /\ b.reps.n = 8)}

\* Request bodies: the plain ones, and the examples with one field absent or
\* of another JSON type.
Bodies == PlainBodies
          \cup {[b EXCEPT !.title = AbsentTitle] : b \in Examples}
          \cup UNION {{[b EXCEPT !.load = v] : v \in Variants(b.load.n)} : b \in Examples}
          \cup UNION {{[b EXCEPT !.reps = v] : v \in Variants(b.reps.n)} : b \in Examples}

Response(op, id, raw, status, detail, body, list) ==
    [op |-> op, id |-> id, raw |-> raw, status |-> status, detail |-> detail,
     body |-> body, list |-> list]

NotFound == "Workout not found"

VARIABLES
    table,       \* the rows of table workouts (committed)
    last,        \* Spec: the request handled last and the response it got
    shown,       \* Spec: per id, what the last create/update/delete told the client
    pc,          \* SpecConc: per request, the handler statement it is at
    rq,          \* SpecConc: per request, its operation, path id and payload
    obj,         \* SpecConc: per request, the ORM object its session holds
    out,         \* SpecConc: per request, how the handler was left
    open,        \* SpecConc: the number of sessions created and not closed
    lastCommit   \* SpecConc: the request whose db.commit() succeeded last

seqvars == <<last, shown>>
concvars == <<pc, rq, obj, out, open, lastCommit>>
vars == <<table, last, shown, pc, rq, obj, out, open, lastCommit>>

Never == [src |-> "never", body |-> None]
NoPayload == [title |-> "", load |-> 0, reps |-> 0]
NoRequest == [op |-> "none", id |-> NoId, payload |-> NoPayload]

InitSeq ==
    /\ last = Response("none", NoId, NoRaw, 0, "", None, <<>>)
    /\ shown = [i \in PathIds |-> Never]

InitConc ==
    /\ pc = [r \in Requests |-> "idle"]
    /\ rq = [r \in Requests |-> NoRequest]
    /\ obj = [r \in Requests |-> NoObject]
    /\ out = [r \in Requests |-> "none"]
    /\ open = 0
    /\ lastCommit = "none"

\* Base.metadata.create_all on a new database file: the table exists, empty.
Init ==
    /\ table = {}
    /\ InitSeq
    /\ InitConc

(* ---------------- Spec: one action per request ----------------------- *)

\* A body that fails validation: 422, and the handler is not called.
Invalid(op, id, raw) ==
    /\ ~WorkoutBase(raw).ok
    /\ last' = Response(op, id, raw, 422, "", None, <<>>)
    /\ UNCHANGED <<table, shown>>

\* POST /workouts/  (the model stops creating once the next id passes MaxId)
create_workout(raw) ==
    \/ Invalid("create", NoId, raw)
    \/ /\ WorkoutBase(raw).ok
       /\ NextId(table) <= MaxId
       /\ LET db_workout == Workout(Dict(WorkoutBase(raw)))
              t1 == FlushInsert(table, db_workout)
              out1 == WorkoutOut(refresh(t1, NextId(table)))
          IN  /\ table' = t1
              /\ last' = Response("create", NoId, raw, 201, "", out1, <<>>)
              /\ shown' = [shown EXCEPT ![out1.id] = [src |-> "create", body |-> out1]]

\* GET /workouts/
get_workouts ==
    \E s \in all(table) :
        /\ last' = Response("list", NoId, NoRaw, 200, "",
                            None, [i \in DOMAIN s |-> WorkoutOut(s[i])])
        /\ UNCHANGED <<table, shown>>

\* GET /workouts/{workout_id}
get_workout(workout_id) ==
    LET workout == get(table, workout_id)
    IN  /\ last' = IF IsNone(workout)
                   THEN Response("get", workout_id, NoRaw, 404, NotFound, None, <<>>)
                   ELSE Response("get", workout_id, NoRaw, 200, "", WorkoutOut(workout), <<>>)
        /\ UNCHANGED <<table, shown>>

\* PUT /workouts/{workout_id}
update_workout(workout_id, raw) ==
    \/ Invalid("update", workout_id, raw)
    \/ /\ WorkoutBase(raw).ok
       /\ LET workout == get(table, workout_id)
          IN  IF IsNone(workout)
              THEN /\ last' = Response("update", workout_id, raw, 404, NotFound, None, <<>>)
                   /\ UNCHANGED <<table, shown>>
              ELSE LET w1 == SetAttrs(workout, Dict(WorkoutBase(raw)))
                       t1 == FlushUpdate(table, w1)
                       out1 == WorkoutOut(refresh(t1, w1.id))
                   IN  /\ table' = t1
                       /\ last' = Response("update", workout_id, raw, 200, "", out1, <<>>)
                       /\ shown' = [shown EXCEPT ![workout_id] =
                                       [src |-> "update", body |-> out1]]

\* DELETE /workouts/{workout_id}
delete_workout(workout_id) ==
    LET workout == get(table, workout_id)
    IN  IF IsNone(workout)
        THEN /\ last' = Response("delete", workout_id, NoRaw, 404, NotFound, None, <<>>)
             /\ UNCHANGED <<table, shown>>
        ELSE /\ table' = FlushDelete(table, workout)
             /\ last' = Response("delete", workout_id, NoRaw, 204, "", None, <<>>)
             /\ shown' = [shown EXCEPT ![workout_id] = [src |-> "delete", body |-> None]]

Create == (\E raw \in Bodies : create_workout(raw)) /\ UNCHANGED concvars
List == get_workouts /\ UNCHANGED concvars
GetOne == (\E i \in PathIds : get_workout(i)) /\ UNCHANGED concvars
Update == (\E i \in PathIds, raw \in Bodies : update_workout(i, raw)) /\ UNCHANGED concvars
Delete == (\E i \in PathIds : delete_workout(i)) /\ UNCHANGED concvars

Next ==
    \/ Create
    \/ List
    \/ GetOne
    \/ Update
    \/ Delete

Spec == Init /\ [][Next]_vars

(* ------- SpecConc: one session per request, statements interleaved ---- *)

\* How a handler is left: by return, by the HTTPException(404), or by an
\* exception a storage call raised.  Its locals are gone.
Leave(r, how) ==
    /\ pc' = [pc EXCEPT ![r] = "finally"]
    /\ out' = [out EXCEPT ![r] = how]
    /\ rq' = [rq EXCEPT ![r] = NoRequest]
    /\ obj' = [obj EXCEPT ![r] = NoObject]

\* (variant: db.close() after the yield, without try/finally)
ClosesOnReturnOnly(how) == how = "return"
\* get_db: try: yield db / finally: db.close() -- the session is closed
\* however the handler was left.
Closes(how) == TRUE

\* A request arrives: get_db creates its session (db = SessionLocal()) and
\* the handler is entered.  create_workout builds the object and adds it to
\* the session before its first storage call.
Start(r) ==
    /\ pc[r] \in {"idle", "done"}
    /\ \/ \E p \in Payloads :
             /\ rq' = [rq EXCEPT ![r] = [op |-> "create", id |-> NoId, payload |-> p]]
             /\ obj' = [obj EXCEPT ![r] = Workout(p)]
             /\ pc' = [pc EXCEPT ![r] = "commit"]
       \/ /\ rq' = [rq EXCEPT ![r] = [op |-> "list", id |-> NoId, payload |-> NoPayload]]
          /\ pc' = [pc EXCEPT ![r] = "query"]
          /\ UNCHANGED obj
       \/ \E op \in {"get", "delete"}, i \in PathIds :
             /\ rq' = [rq EXCEPT ![r] = [op |-> op, id |-> i, payload |-> NoPayload]]
             /\ pc' = [pc EXCEPT ![r] = "query"]
             /\ UNCHANGED obj
       \/ \E i \in PathIds, p \in Payloads :
             /\ rq' = [rq EXCEPT ![r] = [op |-> "update", id |-> i, payload |-> p]]
             /\ pc' = [pc EXCEPT ![r] = "query"]
             /\ UNCHANGED obj
    /\ out' = [out EXCEPT ![r] = "none"]
    /\ open' = open + 1
    /\ UNCHANGED <<table, lastCommit, seqvars>>

\* db.query(models.Workout).all() / .get(workout_id), and the 404 of a
\* handler that finds nothing.  delete_workout marks the object deleted.
Query(r) ==
    /\ pc[r] = "query"
    /\ LET workout == get(table, rq[r].id)
       IN  \/ /\ rq[r].op = "list"
              /\ Leave(r, "return")
           \/ /\ rq[r].op # "list"
              /\ IsNone(workout)
              /\ Leave(r, "http404")
           \/ /\ rq[r].op = "get"
              /\ ~IsNone(workout)
              /\ Leave(r, "return")
           \/ /\ rq[r].op \in {"update", "delete"}
              /\ ~IsNone(workout)
              /\ pc' = [pc EXCEPT ![r] = IF rq[r].op = "update" THEN "assign" ELSE "commit"]
              /\ obj' = [obj EXCEPT ![r] = workout]
              /\ UNCHANGED <<rq, out>>
    /\ UNCHANGED <<table, open, lastCommit, seqvars>>

\* update_workout: the setattr loop.
Assign(r) ==
    /\ pc[r] = "assign"
    /\ obj' = [obj EXCEPT ![r] = SetAttrs(obj[r], rq[r].payload)]
    /\ pc' = [pc EXCEPT ![r] = "commit"]
    /\ UNCHANGED <<table, rq, out, open, lastCommit, seqvars>>

\* db.commit() of create_workout: INSERT and COMMIT.  The session expires
\* the object; its primary key is the one the INSERT returned.  (The model
\* stops inserting once the next id passes MaxId.)
CommitCreate(r) ==
    /\ pc[r] = "commit"
    /\ rq[r].op = "create"
    /\ NextId(table) <= MaxId
    /\ table' = FlushInsert(table, obj[r])
    /\ obj' = [obj EXCEPT ![r] = [NoObject EXCEPT !.id = NextId(table)]]
    /\ lastCommit' = r
    /\ pc' = [pc EXCEPT ![r] = "refresh"]
    /\ UNCHANGED <<rq, out, open, seqvars>>

\* db.commit() of update_workout: UPDATE (when an attribute changed) and
\* COMMIT.  An UPDATE that matches no row raises StaleDataError.
CommitUpdate(r) ==
    /\ pc[r] = "commit"
    /\ rq[r].op = "update"
    /\ IF IsModified(obj[r]) /\ obj[r].id \notin Ids(table)
       THEN /\ Leave(r, "error")
            /\ UNCHANGED <<table, lastCommit>>
       ELSE /\ table' = FlushUpdate(table, obj[r])
            /\ lastCommit' = r
            /\ obj' = [obj EXCEPT ![r] = [NoObject EXCEPT !.id = obj[r].id]]
            /\ pc' = [pc EXCEPT ![r] = "refresh"]
            /\ UNCHANGED <<rq, out>>
    /\ UNCHANGED <<open, seqvars>>

\* db.delete(workout); db.commit(); return
CommitDelete(r) ==
    /\ pc[r] = "commit"
    /\ rq[r].op = "delete"
    /\ table' = FlushDelete(table, obj[r])
    /\ lastCommit' = r
    /\ Leave(r, "return")
    /\ UNCHANGED <<open, seqvars>>

\* db.refresh(obj); return obj.  A row that is gone raises InvalidRequestError.
Refresh(r) ==
    /\ pc[r] = "refresh"
    /\ IF IsNone(refresh(table, obj[r].id))
       THEN Leave(r, "error")
       ELSE Leave(r, "return")
    /\ UNCHANGED <<table, open, lastCommit, seqvars>>

\* A storage call (query, commit, refresh) raises: the database cannot be
\* reached or is locked.  Nothing of the call is persisted.
StorageFailure(r) ==
    /\ pc[r] \in {"query", "commit", "refresh"}
    /\ Leave(r, "error")
    /\ UNCHANGED <<table, open, lastCommit, seqvars>>

\* get_db's finally clause, and the response leaves.
Finally(r) ==
    /\ pc[r] = "finally"
    /\ open' = IF Closes(out[r]) THEN open - 1 ELSE open
    /\ pc' = [pc EXCEPT ![r] = "done"]
    /\ UNCHANGED <<table, rq, obj, out, lastCommit, seqvars>>

NextConc ==
    \/ \E r \in Requests : Start(r)
    \/ \E r \in Requests : Query(r)
    \/ \E r \in Requests : Assign(r)
    \/ \E r \in Requests : CommitCreate(r)
    \/ \E r \in Requests : CommitUpdate(r)
    \/ \E r \in Requests : CommitDelete(r)
    \/ \E r \in Requests : Refresh(r)
    \/ \E r \in Requests : StorageFailure(r)
    \/ \E r \in Requests : Finally(r)

SpecConc == Init /\ [][NextConc]_vars

(* ------------------------------ properties --------------------------- *)

Range(f) == {f[i] : i \in DOMAIN f}

\* The body of a request has every field, each of its declared JSON type.
IsPlain(raw) == raw.title.kind = "str" /\ raw.load.kind = "int" /\ raw.reps.kind = "int"

\* The three fields a client sent in a plain body.
Sent(raw) == [title |-> raw.title.s, load |-> raw.load.n, reps |-> raw.reps.n]

IsValid(raw) == WorkoutBase(raw).ok

\* C1: a create with a valid payload P answers 201 with a body whose id is
\* positive and held by no record before the call and whose title, load and
\* reps are P's; the store gains exactly that record; and a get-one on an id
\* whose last write was that create answers 200 with the same four fields.
C1_CreateThenGet ==
    /\ [][(last'.op = "create" /\ IsValid(last'.raw)) =>
            /\ last'.status = 201
            /\ last'.body.id > 0
            /\ last'.body.id \notin Ids(table)
            /\ Dict(last'.body) = Dict(WorkoutBase(last'.raw))
            /\ IsPlain(last'.raw) => Dict(last'.body) = Sent(last'.raw)
            /\ last'.body \notin table
            /\ table' = table \cup {last'.body}]_vars
    /\ [](\A i \in PathIds :
            (last.op = "get" /\ last.id = i /\ shown[i].src = "create") =>
                (last.status = 200 /\ last.body = shown[i].body))

C1_Witness ==
    /\ last.op = "get"
    /\ last.status = 200
    /\ shown[last.id].src = "create"
    /\ last.body = [id |-> 2, title |-> "Bench", load |-> 80, reps |-> 5]

\* C2: an update of an existing id with a valid payload U answers 200 with
\* body {id, U.title, U.load, U.reps}, the stored record then has exactly U's
\* fields, and a get-one on an id whose last write was that update answers
\* 200 with that body.
C2_UpdateOverwrites ==
    /\ [][(last'.op = "update" /\ IsValid(last'.raw) /\ last'.id \in Ids(table)) =>
            /\ last'.status = 200
            /\ last'.body.id = last'.id
            /\ Dict(last'.body) = Dict(WorkoutBase(last'.raw))
            /\ IsPlain(last'.raw) => Dict(last'.body) = Sent(last'.raw)
            /\ \A w \in table' : w.id = last'.id => w = last'.body]_vars
    /\ [](\A i \in PathIds :
            (last.op = "get" /\ last.id = i /\ shown[i].src = "update") =>
                (last.status = 200 /\ last.body = shown[i].body))

C2_Witness ==
    /\ last.op = "get"
    /\ last.status = 200
    /\ shown[last.id].src = "update"
    /\ last.body = [id |-> 1, title |-> "Squat", load |-> 100, reps |-> 8]

\* C3: a delete of an existing id answers 204 with an empty body and removes
\* the record; while the last write to an id is that delete (no create has
\* assigned the id again), a get-one, update or delete on it answers 404.
C3_DeleteThen404 ==
    /\ [][(last'.op = "delete" /\ last'.id \in Ids(table)) =>
            /\ last'.status = 204
            /\ last'.body = None
            /\ last'.list = <<>>
            /\ last'.id \notin Ids(table')]_vars
    /\ [][\A i \in PathIds :
            (/\ shown[i].src = "delete"
             /\ last'.id = i
             /\ \/ last'.op \in {"get", "delete"}
                \/ last'.op = "update" /\ IsValid(last'.raw)) =>
                last'.status = 404]_vars

C3_Witness ==
    /\ last.op = "get"
    /\ last.status = 404
    /\ shown[last.id].src = "delete"
    /\ table # {}

\* C4: a get-one, an update with a valid payload, or a delete on an id that
\* no stored record has answers 404 with detail "Workout not found" and
\* leaves the store as it was.
C4_MissingIs404 ==
    [][(/\ last'.id \notin Ids(table)
        /\ \/ last'.op \in {"get", "delete"}
           \/ last'.op = "update" /\ IsValid(last'.raw)) =>
            /\ last'.status = 404
            /\ last'.detail = NotFound
            /\ last'.body = None
            /\ table' = table]_vars

C4_Witness ==
    /\ last.op = "update"
    /\ last.status = 404
    /\ last.detail = NotFound
    /\ last.id \notin Ids(table)
    /\ table # {}

\* C5: no two stored records have the same id, and no request changes the id
\* of a record: every id stays in the table until a delete of that id, and an
\* update changes nothing but title, load and reps of the record it targets.
C5_IdUniqueImmutable ==
    /\ [](\A v, w \in table : v.id = w.id => v = w)
    /\ [][/\ last'.op # "delete" => Ids(table) \subseteq Ids(table')
          /\ last'.op = "delete" => Ids(table) \ {last'.id} = Ids(table')
          /\ last'.op = "update" =>
                /\ Ids(table') = Ids(table)
                /\ Cardinality(table') = Cardinality(table)
                /\ \A w \in table : w.id # last'.id => w \in table']_vars

C5_Witness ==
    /\ Cardinality(table) = 2
    /\ last.op = "update"
    /\ last.status = 200
    /\ shown[1].src = "update"
    /\ shown[2].src = "create"

\* A JSON value an int field does not accept: no value, or a string that is
\* not a decimal numeral.
NotIntegral(v) == v.kind = "absent" \/ (v.kind = "str" /\ ~IsNumeral(v.cs))

C7_ListIsStore ==
    last.op = "list" =>
        /\ last.status = 200
        /\ Len(last.list) = Cardinality(table)
        /\ Range(last.list) = table
        /\ \A i \in PathIds : shown[i].src = "create" => shown[i].body \in Range(last.list)

C7_Witness ==
    /\ last.op = "list"
    /\ Len(last.list) = 2
    /\ shown[1].src = "create"
    /\ shown[2].src = "create"
    /\ last.list[1].id = 2

\* C9: a request changes at most one record, and only its target: a create
\* adds one record and changes none; an update or delete on id i leaves every
\* record with another id as it was; a list or get-one changes nothing.
C9_Frame ==
    [][/\ Cardinality(table \ table') <= 1
       /\ Cardinality(table' \ table) <= 1
       /\ last'.op = "create" =>
             (table \subseteq table' /\ (last'.status = 201 => Cardinality(table') = Cardinality(table) + 1))
       /\ last'.op \in {"update", "delete"} =>
             /\ \A w \in table : w.id # last'.id => w \in table'
             /\ \A w \in table' : w.id # last'.id => w \in table
       /\ last'.op \in {"list", "get"} => table' = table]_vars

C9_Witness ==
    /\ last.op = "update"
    /\ last.status = 200
    /\ last.id = 2
    /\ \E w \in table : w.id = 1 /\ Dict(w) # Dict(last.body)

(* Properties of SpecConc. *)

InFlight == {r \in Requests : pc[r] \notin {"idle", "done"}}

\* C8: every session a request created is closed when the request has
\* finished, however its handler was left (return, the 404, an exception of
\* a storage call): the open sessions are those of the requests in flight,
\* none when none is in flight; and the table changes only in a db.commit()
\* that succeeds, so work a handler did not commit is not persisted.
C8_SessionReleased ==
    /\ [](open = Cardinality(InFlight))
    /\ [][table' # table =>
            \E r \in Requests : pc[r] = "commit" /\ lastCommit' = r /\ out'[r] # "error"]_vars

C8_Witness ==
    /\ open = 0
    /\ \E r1, r2 \in Requests :
          /\ pc[r1] = "done" /\ out[r1] = "error"
          /\ pc[r2] = "done" /\ out[r2] = "http404"
    /\ table # {}

\* C10: when two updates of the same id are in flight together and both have
\* committed, the stored record has the title, load and reps of the payload
\* of the one that committed last.
C10_LastWriterWins ==
    \A r1, r2 \in Requests :
        (/\ r1 # r2
         /\ pc[r1] = "refresh" /\ rq[r1].op = "update"
         /\ pc[r2] = "refresh" /\ rq[r2].op = "update"
         /\ rq[r1].id = rq[r2].id
         /\ lastCommit = r2) =>
            \A w \in table : w.id = rq[r2].id => Dict(w) = rq[r2].payload

====
